---- MODULE Spec2Model ----
(***************************************************************************)
(* Model of middleware/session/session.go: pooled Session objects, their   *)
(* key/value db, the Storage provider and the session cookie.              *)
(*                                                                         *)
(* Request cycles (handlers) obtain a Session from the Store, read and     *)
(* mutate it, and finish with Save, Destroy or by dropping it.             *)
(***************************************************************************)
EXTENDS Integers, Sequences, FiniteSets, Bags, TLC

VARIABLES
    sessions,     \* heap: Session struct of every object, by address
    allocated,    \* addresses handed out by sessionPool.New and still reachable
    sessionPool,  \* sync.Pool contents, a bag of addresses
    storage,      \* Storage provider: id -> [data, ttl]; DOMAIN = stored keys
    nextId,       \* state of the KeyGenerator: the next value it returns
    reqCookie,    \* per request: the session cookie of the request header
    respCookie,   \* per request: the Set-Cookie directive of the response
    pc,           \* per request cycle: "idle", "active", "saved" or "done"
    sess,         \* per request cycle: the *Session the handler holds
    calls,        \* number of calls made so far
    carried,      \* per request cycle: the ids its Session has had
    backendLog,   \* the Storage calls of the call that just returned
    last          \* the call that just returned: operation, cycle, error

vars == <<sessions, allocated, sessionPool, storage, nextId, reqCookie,
          respCookie, pc, sess, calls, carried, backendLog, last>>

-----------------------------------------------------------------------------
(* Bounds *)

\* Values the KeyGenerator can return before the run ends
MaxIds == 3
\* Calls of Store.Get and of Session methods in one run
MaxCalls == 6

\* Two requests handled concurrently, each handled once
Cycles == {"r1", "r2"}
\* Addresses: sessionPool.New runs at most once per request
Objs == 1..Cardinality(Cycles)
Ids == 1..MaxIds

Keys == {"user", "role"}
\* "chan" stands for a value msgp cannot encode (MarshalMsg returns an error)
Unencodable == "chan"
Vals == {"alice", Unencodable}

-----------------------------------------------------------------------------
(* Values *)

EmptyId == 0
NilObj == 0
NilCtx == "nil"
NilStore == "nil"
TheStore == "store"
Nil == "nil"
BackendError == "BackendError"
SerializationError == "SerializationError"

\* Store configuration: Expiration in seconds
Expiration == 86400

NoCookie == [set |-> FALSE, value |-> EmptyId, maxAge |-> 0]

-----------------------------------------------------------------------------
(* db: an ordered list of key/value pairs with unique keys *)

NilDb == [nil |-> TRUE, d |-> <<>>]
NewDb == [nil |-> FALSE, d |-> <<>>]

RECURSIVE indexOf(_, _, _)
indexOf(d, key, i) ==
    IF i > Len(d) THEN 0
    ELSE IF d[i].k = key THEN i
    ELSE indexOf(d, key, i + 1)

dbLen(db) == Len(db.d)

dbGet(db, key) ==
    LET i == indexOf(db.d, key, 1)
    IN  IF i = 0 THEN Nil ELSE db.d[i].v

dbSet(db, key, val) ==
    LET i == indexOf(db.d, key, 1)
    IN  IF i = 0
        THEN [db EXCEPT !.d = Append(@, [k |-> key, v |-> val])]
        ELSE [db EXCEPT !.d[i].v = val]

dbDelete(db, key) ==
    LET i == indexOf(db.d, key, 1)
    IN  IF i = 0 THEN db
        ELSE [db EXCEPT !.d = SubSeq(@, 1, i - 1) \o SubSeq(@, i + 1, Len(@))]

dbReset(db) == [db EXCEPT !.d = <<>>]

\* MarshalMsg: an array header with the number of pairs, then key, value, ...
RECURSIVE appendPairs(_, _, _)
appendPairs(b, d, i) ==
    IF i > Len(d) THEN b
    ELSE appendPairs(b \o <<d[i].k, d[i].v>>, d, i + 1)

MarshalMsg(db) ==
    IF \E i \in 1..Len(db.d) : db.d[i].v = Unencodable
    THEN [err |-> SerializationError, data |-> <<>>]
    ELSE [err |-> Nil, data |-> appendPairs(<<Len(db.d)>>, db.d, 1)]

\* UnmarshalMsg: reads the header, then that many pairs into the db
RECURSIVE readPairs(_, _, _, _)
readPairs(db, b, n, i) ==
    IF i > n THEN db
    ELSE readPairs(dbSet(db, b[2 * i], b[2 * i + 1]), b, n, i + 1)

UnmarshalMsg(db, b) ==
    IF Len(b) = 0 \/ Len(b) # 2 * b[1] + 1
    THEN [err |-> SerializationError, db |-> db]
    ELSE [err |-> Nil, db |-> readPairs(db, b, b[1], 1)]

-----------------------------------------------------------------------------
(* Session struct and the pool *)

\* new(Session): the zero value
NewSession == [ctx |-> NilCtx, config |-> NilStore, db |-> NilDb,
               id |-> EmptyId, fresh |-> FALSE]

acquireSession(s) == [s EXCEPT !.db = NewDb, !.fresh = TRUE]

\* Mutant: the id survives the release
releaseSessionKeepsId(s) ==
    [s EXCEPT !.ctx = NilCtx,
              !.config = NilStore,
              !.db = IF s.db.nil THEN s.db ELSE dbReset(s.db),
              !.fresh = TRUE]

\* Mutant: the data survives the release
releaseSessionKeepsData(s) ==
    [s EXCEPT !.ctx = NilCtx,
              !.config = NilStore,
              !.id = EmptyId,
              !.fresh = TRUE]

releaseSession(s) ==
    [s EXCEPT !.ctx = NilCtx,
              !.config = NilStore,
              !.db = IF s.db.nil THEN s.db ELSE dbReset(s.db),
              !.id = EmptyId,
              !.fresh = TRUE]

Fresh(s) == s.fresh

ID(s) == s.id

Get(s, key) == dbGet(s.db, key)

-----------------------------------------------------------------------------
(* Storage provider: Get / Set / Delete on a key/value store with a ttl *)

StorageHas(st, id) == id \in DOMAIN st

StorageSet(st, id, data, ttl) ==
    [k \in DOMAIN st \cup {id} |->
        IF k = id THEN [data |-> data, ttl |-> ttl] ELSE st[k]]

\* Deleting a missing key is not an error and changes nothing
StorageDelete(st, id) == [k \in DOMAIN st \ {id} |-> st[k]]

\* A call that returns an error may or may not have reached the store
Outcome(err, applied) == err = Nil => applied

-----------------------------------------------------------------------------
(* Cookies *)

setCookie(s) == [set |-> TRUE, value |-> s.id, maxAge |-> Expiration]

\* Mutant: the expiring cookie is a session cookie (MaxAge 0)
delCookieMaxAgeZero(s) == [set |-> TRUE, value |-> EmptyId, maxAge |-> 0]

delCookie(s) == [set |-> TRUE, value |-> EmptyId, maxAge |-> -1]

-----------------------------------------------------------------------------
(* Helpers of the transition relation *)

\* Mutant: the error of the failed step is dropped and nil returned
ReturnedNil(op, c, err) == [op |-> op, c |-> c, err |-> Nil]

Returned(op, c, err) == [op |-> op, c |-> c, err |-> err]

\* One call of the Storage provider and the error it returned
StorageCall(op, key, err) == [op |-> op, key |-> key, err |-> err]

\* One more call, within the budget of the run
Call == calls < MaxCalls /\ calls' = calls + 1

Active(c) == pc[c] = "active" /\ sessions[sess[c]].config = TheStore

\* An object no handler holds and the pool does not hold is collected
Reachable(o, holders, pool) ==
    \/ BagIn(o, pool)
    \/ \E c \in Cycles : holders[c] = o

Collect(heap, live, holders, pool) ==
    [o \in Objs |-> IF o \in live /\ Reachable(o, holders, pool)
                    THEN heap[o] ELSE NewSession]

Live(live, holders, pool) == {o \in live : Reachable(o, holders, pool)}

-----------------------------------------------------------------------------
(* Initial state *)

Init ==
    /\ sessions = [o \in Objs |-> NewSession]
    /\ allocated = {}
    /\ sessionPool = EmptyBag
    /\ storage = << >>
    /\ nextId = 1
    /\ reqCookie = [c \in Cycles |-> EmptyId]
    /\ respCookie = [c \in Cycles |-> NoCookie]
    /\ pc = [c \in Cycles |-> "idle"]
    /\ sess = [c \in Cycles |-> NilObj]
    /\ calls = 0
    /\ carried = [c \in Cycles |-> {}]
    /\ backendLog = << >>
    /\ last = Returned("init", NilCtx, Nil)

-----------------------------------------------------------------------------
(* Store.Get: resolve or create the Session of a request *)

\* Mutant: Get may return an object that was never put back
PoolGetInUse(o) ==
    \/ o \in allocated
    \/ o \notin allocated /\ \A p \in Objs \ allocated : o <= p

\* sessionPool.Get(): a pooled object, or a new one from New
PoolGet(o) ==
    \/ BagIn(o, sessionPool)
    \/ o \notin allocated /\ \A p \in Objs \ allocated : o <= p

StoreGet(c, o, cookie) ==
    /\ pc[c] = "idle"
    /\ PoolGet(o)
    /\ cookie \in {EmptyId} \cup 1..(nextId - 1)
    /\ cookie = EmptyId => nextId <= MaxIds
    /\ LET pool == IF BagIn(o, sessionPool)
                   THEN sessionPool (-) SetToBag({o}) ELSE sessionPool
           a == acquireSession(sessions[o])
           id == IF cookie = EmptyId THEN nextId ELSE cookie
           found == cookie # EmptyId /\ StorageHas(storage, cookie)
           dec == IF found THEN UnmarshalMsg(a.db, storage[cookie].data)
                  ELSE [err |-> Nil, db |-> a.db]
           s == [a EXCEPT !.ctx = c, !.config = TheStore, !.id = id,
                          !.db = dec.db, !.fresh = ~found]
           e == dec.err
           holders == IF e = Nil THEN [sess EXCEPT ![c] = o] ELSE sess
       IN  /\ sessionPool' = pool
           /\ nextId' = IF cookie = EmptyId THEN nextId + 1 ELSE nextId
           /\ sess' = holders
           /\ pc' = [pc EXCEPT ![c] = IF e = Nil THEN "active" ELSE "done"]
           /\ allocated' = Live(allocated \cup {o}, holders, pool)
           /\ sessions' = Collect([sessions EXCEPT ![o] = s],
                                  allocated \cup {o}, holders, pool)
           /\ reqCookie' = [reqCookie EXCEPT ![c] = cookie]
           /\ respCookie' = [respCookie EXCEPT ![c] = NoCookie]
           /\ carried' = [carried EXCEPT ![c] = {id}]
           /\ Call
           /\ backendLog' = IF cookie = EmptyId THEN << >>
                         ELSE <<StorageCall("Get", cookie, Nil)>>
           /\ last' = Returned("StoreGet", c, e)
    /\ UNCHANGED storage

-----------------------------------------------------------------------------
(* Session methods *)

\* Mutant: the test for an empty db never succeeds
NoDataNever(s) == dbLen(s.db) < 0

\* Save: "Don't save to Storage if no data is available"
NoData(s) == dbLen(s.db) <= 0

\* Mutant: the entry is stored without the configured expiration
SaveEntryNoTtl(s) ==
    [key |-> s.id, data |-> MarshalMsg(s.db).data, ttl |-> 0]

\* Save: the arguments of Storage.Set
SaveEntry(s) ==
    [key |-> s.id, data |-> MarshalMsg(s.db).data, ttl |-> Expiration]

Set(c, key, val) ==
    /\ Active(c)
    /\ sessions' = [sessions EXCEPT ![sess[c]].db = dbSet(@, key, val)]
    /\ Call
    /\ backendLog' = << >>
    /\ last' = Returned("Set", c, Nil)
    /\ UNCHANGED <<allocated, sessionPool, storage, nextId,
                   reqCookie, respCookie, pc, sess, carried>>

Delete(c, key) ==
    /\ Active(c)
    /\ sessions' = [sessions EXCEPT ![sess[c]].db = dbDelete(@, key)]
    /\ Call
    /\ backendLog' = << >>
    /\ last' = Returned("Delete", c, Nil)
    /\ UNCHANGED <<allocated, sessionPool, storage, nextId,
                   reqCookie, respCookie, pc, sess, carried>>

\* Mutant: the local data is reset only once Storage.Delete succeeded
DestroyResetsLast(c, err, applied) ==
    /\ Active(c)
    /\ Outcome(err, applied)
    /\ LET o == sess[c]
           s == sessions[o]
       IN  /\ storage' = IF applied THEN StorageDelete(storage, s.id)
                         ELSE storage
           /\ IF err # Nil
              THEN UNCHANGED <<sessions, reqCookie, respCookie>>
              ELSE /\ sessions' = [sessions EXCEPT ![o].db = dbReset(@)]
                   /\ reqCookie' = [reqCookie EXCEPT ![s.ctx] = EmptyId]
                   /\ respCookie' = [respCookie EXCEPT ![s.ctx] = delCookie(s)]
           /\ Call
           /\ backendLog' = <<StorageCall("Delete", s.id, err)>>
           /\ last' = Returned("Destroy", c, err)
    /\ UNCHANGED <<allocated, sessionPool, nextId, pc, sess, carried>>

\* Mutant: a destroyed session is marked as not fresh
DestroyClearsFresh(c, err, applied) ==
    /\ Active(c)
    /\ Outcome(err, applied)
    /\ LET o == sess[c]
           s == sessions[o]
       IN  /\ sessions' = [sessions EXCEPT ![o].db = dbReset(@),
                                           ![o].fresh = (err # Nil /\ @)]
           /\ storage' = IF applied THEN StorageDelete(storage, s.id)
                         ELSE storage
           /\ IF err # Nil
              THEN UNCHANGED <<reqCookie, respCookie>>
              ELSE /\ reqCookie' = [reqCookie EXCEPT ![s.ctx] = EmptyId]
                   /\ respCookie' = [respCookie EXCEPT ![s.ctx] = delCookie(s)]
           /\ Call
           /\ backendLog' = <<StorageCall("Delete", s.id, err)>>
           /\ last' = Returned("Destroy", c, err)
    /\ UNCHANGED <<allocated, sessionPool, nextId, pc, sess, carried>>

Destroy(c, err, applied) ==
    /\ Active(c)
    /\ Outcome(err, applied)
    /\ LET o == sess[c]
           s == sessions[o]
       IN  /\ sessions' = [sessions EXCEPT ![o].db = dbReset(@)]
           /\ storage' = IF applied THEN StorageDelete(storage, s.id)
                         ELSE storage
           /\ IF err # Nil
              THEN UNCHANGED <<reqCookie, respCookie>>
              ELSE /\ reqCookie' = [reqCookie EXCEPT ![s.ctx] = EmptyId]
                   /\ respCookie' = [respCookie EXCEPT ![s.ctx] = delCookie(s)]
           /\ Call
           /\ backendLog' = <<StorageCall("Delete", s.id, err)>>
           /\ last' = Returned("Destroy", c, err)
    /\ UNCHANGED <<allocated, sessionPool, nextId, pc, sess, carried>>

\* Mutant: the new id is assigned before the old one is deleted
RegenerateRotatesFirst(c, err, applied) ==
    /\ Active(c)
    /\ Outcome(err, applied)
    /\ nextId <= MaxIds
    /\ LET o == sess[c]
           s == sessions[o]
       IN  /\ sessions' = [sessions EXCEPT ![o].id = nextId]
           /\ nextId' = nextId + 1
           /\ carried' = [carried EXCEPT ![c] = @ \cup {nextId}]
           /\ storage' = IF applied THEN StorageDelete(storage, s.id)
                         ELSE storage
           /\ Call
           /\ backendLog' = <<StorageCall("Delete", s.id, err)>>
           /\ last' = Returned("Regenerate", c, err)
    /\ UNCHANGED <<allocated, sessionPool, reqCookie, respCookie, pc, sess>>

\* Mutant: the entry of the old id stays in Storage
RegenerateKeepsOld(c, err, applied) ==
    /\ Active(c)
    /\ Outcome(err, applied)
    /\ err = Nil => nextId <= MaxIds
    /\ IF err # Nil
       THEN UNCHANGED <<sessions, nextId, carried>>
       ELSE /\ sessions' = [sessions EXCEPT ![sess[c]].id = nextId]
            /\ nextId' = nextId + 1
            /\ carried' = [carried EXCEPT ![c] = @ \cup {nextId}]
    /\ Call
    /\ backendLog' = << >>
    /\ last' = Returned("Regenerate", c, err)
    /\ UNCHANGED <<allocated, sessionPool, storage, reqCookie, respCookie,
                   pc, sess>>

\* Mutant: the new id comes with an empty db
RegenerateResetsData(c, err, applied) ==
    /\ Active(c)
    /\ Outcome(err, applied)
    /\ err = Nil => nextId <= MaxIds
    /\ LET o == sess[c]
           s == sessions[o]
       IN  /\ storage' = IF applied THEN StorageDelete(storage, s.id)
                         ELSE storage
           /\ IF err # Nil
              THEN UNCHANGED <<sessions, nextId, carried>>
              ELSE /\ sessions' = [sessions EXCEPT
                                     ![o] = [s EXCEPT !.id = nextId,
                                                      !.db = dbReset(s.db)]]
                   /\ nextId' = nextId + 1
                   /\ carried' = [carried EXCEPT ![c] = @ \cup {nextId}]
           /\ Call
           /\ backendLog' = <<StorageCall("Delete", s.id, err)>>
           /\ last' = Returned("Regenerate", c, err)
    /\ UNCHANGED <<allocated, sessionPool, reqCookie, respCookie, pc, sess>>

Regenerate(c, err, applied) ==
    /\ Active(c)
    /\ Outcome(err, applied)
    /\ err = Nil => nextId <= MaxIds
    /\ LET o == sess[c]
           s == sessions[o]
       IN  /\ storage' = IF applied THEN StorageDelete(storage, s.id)
                         ELSE storage
           /\ IF err # Nil
              THEN UNCHANGED <<sessions, nextId, carried>>
              ELSE /\ sessions' = [sessions EXCEPT ![o].id = nextId]
                   /\ nextId' = nextId + 1
                   /\ carried' = [carried EXCEPT ![c] = @ \cup {nextId}]
           /\ Call
           /\ backendLog' = <<StorageCall("Delete", s.id, err)>>
           /\ last' = Returned("Regenerate", c, err)
    /\ UNCHANGED <<allocated, sessionPool, reqCookie, respCookie, pc, sess>>

\* Save, first return: no data, nothing is stored
SaveEmpty(c) ==
    /\ Active(c)
    /\ NoData(sessions[sess[c]])
    /\ pc' = [pc EXCEPT ![c] = "saved"]
    /\ Call
    /\ backendLog' = << >>
    /\ last' = Returned("Save", c, Nil)
    /\ UNCHANGED <<sessions, allocated, sessionPool, storage, nextId,
                   reqCookie, respCookie, sess, carried>>

\* Save, second return: MarshalMsg failed
SaveMarshalError(c) ==
    /\ Active(c)
    /\ ~NoData(sessions[sess[c]])
    /\ MarshalMsg(sessions[sess[c]].db).err # Nil
    /\ Call
    /\ backendLog' = << >>
    /\ last' = Returned("Save", c, MarshalMsg(sessions[sess[c]].db).err)
    /\ UNCHANGED <<sessions, allocated, sessionPool, storage, nextId,
                   reqCookie, respCookie, pc, sess, carried>>

\* Mutant: the session is released although Storage.Set failed
SaveSetErrorReleases(c, err, applied) ==
    /\ Active(c)
    /\ ~NoData(sessions[sess[c]])
    /\ MarshalMsg(sessions[sess[c]].db).err = Nil
    /\ err # Nil
    /\ LET o == sess[c]
           s == sessions[o]
           e == SaveEntry(s)
       IN  /\ storage' = IF applied
                         THEN StorageSet(storage, e.key, e.data, e.ttl)
                         ELSE storage
           /\ sessions' = [sessions EXCEPT ![o] = releaseSession(s)]
           /\ sessionPool' = sessionPool (+) SetToBag({o})
    /\ Call
    /\ backendLog' = <<StorageCall("Set", sessions[sess[c]].id, err)>>
    /\ last' = Returned("Save", c, err)
    /\ UNCHANGED <<allocated, nextId, reqCookie, respCookie, pc, sess,
                   carried>>

\* Mutant: the cookie is set before Storage.Set is called
SaveSetErrorSetsCookie(c, err, applied) ==
    /\ Active(c)
    /\ ~NoData(sessions[sess[c]])
    /\ MarshalMsg(sessions[sess[c]].db).err = Nil
    /\ err # Nil
    /\ LET s == sessions[sess[c]]
           e == SaveEntry(s)
       IN  /\ storage' = IF applied
                         THEN StorageSet(storage, e.key, e.data, e.ttl)
                         ELSE storage
           /\ respCookie' = [respCookie EXCEPT ![s.ctx] = setCookie(s)]
    /\ Call
    /\ backendLog' = <<StorageCall("Set", sessions[sess[c]].id, err)>>
    /\ last' = Returned("Save", c, err)
    /\ UNCHANGED <<sessions, allocated, sessionPool, nextId,
                   reqCookie, pc, sess, carried>>

\* Save, third return: Storage.Set failed
SaveSetError(c, err, applied) ==
    /\ Active(c)
    /\ ~NoData(sessions[sess[c]])
    /\ MarshalMsg(sessions[sess[c]].db).err = Nil
    /\ err # Nil
    /\ LET s == sessions[sess[c]]
           e == SaveEntry(s)
       IN  storage' = IF applied
                      THEN StorageSet(storage, e.key, e.data, e.ttl)
                      ELSE storage
    /\ Call
    /\ backendLog' = <<StorageCall("Set", sessions[sess[c]].id, err)>>
    /\ last' = Returned("Save", c, err)
    /\ UNCHANGED <<sessions, allocated, sessionPool, nextId,
                   reqCookie, respCookie, pc, sess, carried>>

\* Mutant: Save writes its pairs into the entry Storage already has
SaveStoredMerges(c) ==
    /\ Active(c)
    /\ ~NoData(sessions[sess[c]])
    /\ MarshalMsg(sessions[sess[c]].db).err = Nil
    /\ LET o == sess[c]
           s == sessions[o]
           e == SaveEntry(s)
           old == IF StorageHas(storage, e.key)
                  THEN UnmarshalMsg(NewDb, storage[e.key].data).db
                  ELSE NewDb
           merged == UnmarshalMsg(old, e.data).db
       IN  /\ storage' = StorageSet(storage, e.key, MarshalMsg(merged).data,
                                    e.ttl)
           /\ respCookie' = [respCookie EXCEPT ![s.ctx] = setCookie(s)]
           /\ sessions' = [sessions EXCEPT ![o] = releaseSession(s)]
           /\ sessionPool' = sessionPool (+) SetToBag({o})
    /\ pc' = [pc EXCEPT ![c] = "saved"]
    /\ Call
    /\ backendLog' = <<StorageCall("Set", sessions[sess[c]].id, Nil)>>
    /\ last' = Returned("Save", c, Nil)
    /\ UNCHANGED <<allocated, nextId, reqCookie, sess, carried>>

\* Save, last return: stored, cookie set, session released
SaveStored(c) ==
    /\ Active(c)
    /\ ~NoData(sessions[sess[c]])
    /\ MarshalMsg(sessions[sess[c]].db).err = Nil
    /\ LET o == sess[c]
           s == sessions[o]
           e == SaveEntry(s)
       IN  /\ storage' = StorageSet(storage, e.key, e.data, e.ttl)
           /\ respCookie' = [respCookie EXCEPT ![s.ctx] = setCookie(s)]
           /\ sessions' = [sessions EXCEPT ![o] = releaseSession(s)]
           /\ sessionPool' = sessionPool (+) SetToBag({o})
    /\ pc' = [pc EXCEPT ![c] = "saved"]
    /\ Call
    /\ backendLog' = <<StorageCall("Set", sessions[sess[c]].id, Nil)>>
    /\ last' = Returned("Save", c, Nil)
    /\ UNCHANGED <<allocated, nextId, reqCookie, sess, carried>>

Save(c, err, applied) ==
    \/ err = Nil /\ applied /\ SaveEmpty(c)
    \/ err = Nil /\ applied /\ SaveMarshalError(c)
    \/ SaveSetError(c, err, applied)
    \/ err = Nil /\ applied /\ SaveStored(c)

-----------------------------------------------------------------------------
(* Environment *)

\* The handler returns: its *Session goes out of scope
EndCycle(c) ==
    /\ pc[c] \in {"active", "saved"}
    /\ LET holders == [sess EXCEPT ![c] = NilObj]
       IN  /\ sess' = holders
           /\ allocated' = Live(allocated, holders, sessionPool)
           /\ sessions' = Collect(sessions, allocated, holders, sessionPool)
    /\ pc' = [pc EXCEPT ![c] = "done"]
    /\ backendLog' = << >>
    /\ last' = Returned("EndCycle", c, Nil)
    /\ UNCHANGED <<calls, carried, sessionPool, storage, nextId, reqCookie,
                   respCookie>>

Errors == {Nil, BackendError}

Next ==
    \/ \E c \in Cycles, o \in Objs, cookie \in {EmptyId} \cup Ids :
          StoreGet(c, o, cookie)
    \/ \E c \in Cycles, key \in Keys, val \in Vals : Set(c, key, val)
    \/ \E c \in Cycles, key \in Keys : Delete(c, key)
    \/ \E c \in Cycles, err \in Errors, applied \in BOOLEAN :
          Destroy(c, err, applied)
    \/ \E c \in Cycles, err \in Errors, applied \in BOOLEAN :
          Regenerate(c, err, applied)
    \/ \E c \in Cycles, err \in Errors, applied \in BOOLEAN :
          Save(c, err, applied)
    \/ \E c \in Cycles : EndCycle(c)

Spec == Init /\ [][Next]_vars

\* Cycles one after the other: Store.Get is called while no other handler
\* is using a Session
Solo(c) == \A w \in Cycles \ {c} : pc[w] # "active"

SeqNext ==
    \/ \E c \in Cycles, o \in Objs, cookie \in {EmptyId} \cup Ids :
          Solo(c) /\ StoreGet(c, o, cookie)
    \/ \E c \in Cycles, key \in Keys, val \in Vals : Set(c, key, val)
    \/ \E c \in Cycles, key \in Keys : Delete(c, key)
    \/ \E c \in Cycles, err \in Errors, applied \in BOOLEAN :
          Destroy(c, err, applied)
    \/ \E c \in Cycles, err \in Errors, applied \in BOOLEAN :
          Regenerate(c, err, applied)
    \/ \E c \in Cycles, err \in Errors, applied \in BOOLEAN :
          Save(c, err, applied)
    \/ \E c \in Cycles : EndCycle(c)

SeqSpec == Init /\ [][SeqNext]_vars

\* Dereference of s.config after releaseSession set it to nil
Panic == "panic"

\* Save called again by a handler whose Save has returned nil: the same code
\* runs on the object the handler still refers to, which by now is in the
\* pool or has been taken from it by another handler (its steps and this
\* call are taken one at a time)
SaveAgain(c, err, applied) ==
    /\ pc[c] = "saved"
    /\ sess[c] # NilObj
    /\ LET o == sess[c]
           s == sessions[o]
           m == MarshalMsg(s.db)
           called == ~NoData(s) /\ m.err = Nil /\ s.config # NilStore
           e == SaveEntry(s)
       IN  /\ IF called THEN Outcome(err, applied)
                         ELSE err = Nil /\ applied
           /\ storage' = IF called /\ applied
                         THEN StorageSet(storage, e.key, e.data, e.ttl)
                         ELSE storage
           /\ backendLog' = IF called
                            THEN <<StorageCall("Set", s.id, err)>>
                            ELSE << >>
           /\ IF called /\ err = Nil
              THEN /\ respCookie' = [respCookie EXCEPT
                                       ![s.ctx] = setCookie(s)]
                   /\ sessions' = [sessions EXCEPT ![o] = releaseSession(s)]
                   /\ sessionPool' = sessionPool (+) SetToBag({o})
              ELSE UNCHANGED <<respCookie, sessions, sessionPool>>
           /\ last' = Returned("Save", c,
                                IF NoData(s) THEN Nil
                                ELSE IF m.err # Nil THEN m.err
                                ELSE IF s.config = NilStore THEN Panic
                                ELSE err)
    /\ Call
    /\ UNCHANGED <<allocated, nextId, reqCookie, pc, sess, carried>>

MisuseNext ==
    \/ \E c \in Cycles, o \in Objs, cookie \in {EmptyId} \cup Ids :
          StoreGet(c, o, cookie)
    \/ \E c \in Cycles, key \in Keys, val \in Vals : Set(c, key, val)
    \/ \E c \in Cycles, key \in Keys : Delete(c, key)
    \/ \E c \in Cycles, err \in Errors, applied \in BOOLEAN :
          Destroy(c, err, applied)
    \/ \E c \in Cycles, err \in Errors, applied \in BOOLEAN :
          Regenerate(c, err, applied)
    \/ \E c \in Cycles, err \in Errors, applied \in BOOLEAN :
          Save(c, err, applied)
    \/ \E c \in Cycles, err \in Errors, applied \in BOOLEAN :
          SaveAgain(c, err, applied)
    \/ \E c \in Cycles : EndCycle(c)

\* Handlers that may call Save a second time
MisuseSpec == Init /\ [][MisuseNext]_vars

-----------------------------------------------------------------------------
(* Properties *)

\* The record UnmarshalMsg rebuilds from stored bytes, as a Session
Loaded(data) == [NewSession EXCEPT !.db = UnmarshalMsg(NewDb, data).db]

\* What the step just taken was, read in the state it led to
Did(op, c) == last'.op = op /\ last'.c = c

Failed == last'.err # Nil

Succeeded == last'.err = Nil

\* The object is in the pool with every field cleared
Released(o) ==
    /\ BagIn(o, sessionPool)
    /\ sessions[o].config = NilStore
    /\ sessions[o].ctx = NilCtx
    /\ sessions[o].id = EmptyId
    /\ dbLen(sessions[o].db) = 0
    /\ Fresh(sessions[o])

\* C1: a successful Save of a non-empty record leaves in Storage, under the
\* id the session had, the serialization of the record as it was, with the
\* configured expiration as ttl; deserializing that entry gives the same
\* value for every key, and a cycle that resolves the id reads those values.
C1_SaveStoresRecord ==
    [][\A c \in Cycles :
        /\ (Did("Save", c) /\ Succeeded /\ dbLen(sessions[sess[c]].db) > 0) =>
              LET s == sessions[sess[c]]
              IN  /\ StorageHas(storage', s.id)
                  /\ storage'[s.id].data = MarshalMsg(s.db).data
                  /\ storage'[s.id].ttl = Expiration
                  /\ UnmarshalMsg(NewDb, storage'[s.id].data).err = Nil
                  /\ \A k \in Keys :
                        Get(Loaded(storage'[s.id].data), k) = Get(s, k)
        /\ (Did("StoreGet", c) /\ Succeeded
               /\ StorageHas(storage, reqCookie'[c])) =>
              \A k \in Keys :
                  Get(sessions'[sess'[c]], k)
                    = Get(Loaded(storage[reqCookie'[c]].data), k)
      ]_vars

\* C1 witness: a cycle saved "user" = "alice" and got the cookie; another
\* cycle resolved that id from Storage and reads "alice".
C1_Witness ==
    \E c \in Cycles, w \in Cycles :
        /\ c # w
        /\ last = Returned("StoreGet", c, Nil)
        /\ pc[c] = "active"
        /\ ~Fresh(sessions[sess[c]])
        /\ Get(sessions[sess[c]], "user") = "alice"
        /\ pc[w] = "saved"
        /\ respCookie[w] = [set |-> TRUE, value |-> sessions[sess[c]].id,
                            maxAge |-> Expiration]

\* C2: Save on an empty record returns no error, leaves Storage as it was
\* and sets no cookie.
C2_EmptySaveWritesNothing ==
    [][\A c \in Cycles :
        (Did("Save", c) /\ dbLen(sessions[sess[c]].db) = 0) =>
            /\ Succeeded
            /\ storage' = storage
            /\ respCookie' = respCookie
            /\ reqCookie' = reqCookie
      ]_vars

\* C2 witness: Save has returned nil on a session that holds no data, and
\* nothing is stored under its id.
C2_Witness ==
    \E c \in Cycles :
        /\ last = Returned("Save", c, Nil)
        /\ sessions[sess[c]].config = TheStore
        /\ dbLen(sessions[sess[c]].db) = 0
        /\ ~StorageHas(storage, sessions[sess[c]].id)
        /\ respCookie[c] = NoCookie

\* C3: a Save that returns an error releases nothing, sets no cookie and
\* leaves the session (id, Store, record) as it was, so that a second Save
\* would store the same entry under the same id.
C3_FailedSaveKeepsSession ==
    [][\A c \in Cycles :
        (Did("Save", c) /\ Failed) =>
            /\ sessions' = sessions
            /\ sessionPool' = sessionPool
            /\ respCookie' = respCookie
            /\ pc'[c] = "active"
            /\ Active(c)'
            /\ SaveEntry(sessions'[sess'[c]]) = SaveEntry(sessions[sess[c]])
      ]_vars

\* C3 witness: Storage.Set failed for a session with data; the session is
\* still the handler's, outside the pool, with its data.
C3_Witness ==
    \E c \in Cycles :
        /\ last = Returned("Save", c, BackendError)
        /\ pc[c] = "active"
        /\ dbLen(sessions[sess[c]].db) > 0
        /\ ~BagIn(sess[c], sessionPool)

\* C4: whenever Save returns nil the session has been released to the pool
\* with its fields cleared, whatever the record contained.
C4_SaveAlwaysReleases ==
    \A c \in Cycles :
        last = Returned("Save", c, Nil) => Released(sess[c])

\* C5: after a successful Destroy the record is empty, Storage has no entry
\* for the id, the response carries the expired cookie (MaxAge -1) and the
\* request no longer carries the session cookie.
C5_DestroyErases ==
    \A c \in Cycles :
        last = Returned("Destroy", c, Nil) =>
            LET s == sessions[sess[c]]
            IN  /\ dbLen(s.db) = 0
                /\ \A k \in Keys : Get(s, k) = Nil
                /\ ~StorageHas(storage, s.id)
                /\ respCookie[c].set /\ respCookie[c].maxAge = -1
                /\ reqCookie[c] = EmptyId

\* C5 witness: a session loaded from Storage with its cookie was destroyed.
C5_Witness ==
    \E c \in Cycles :
        /\ last = Returned("Destroy", c, Nil)
        /\ ~Fresh(sessions[sess[c]])
        /\ respCookie[c].maxAge = -1

\* C6: a Destroy whose Storage.Delete fails returns the error with the
\* record reset, no cookie touched and the id unchanged.
C6_FailedDestroy ==
    [][\A c \in Cycles :
        (Did("Destroy", c) /\ Failed) =>
            /\ dbLen(sessions'[sess[c]].db) = 0
            /\ respCookie' = respCookie
            /\ reqCookie' = reqCookie
            /\ sessions'[sess[c]].id = sessions[sess[c]].id
            /\ Active(c)'
      ]_vars

\* C6 witness: Destroy failed on a loaded session whose entry is still stored
C6_Witness ==
    \E c \in Cycles :
        /\ last = Returned("Destroy", c, BackendError)
        /\ ~Fresh(sessions[sess[c]])
        /\ dbLen(sessions[sess[c]].db) = 0
        /\ StorageHas(storage, sessions[sess[c]].id)
        /\ reqCookie[c] = sessions[sess[c]].id

\* C7: a Regenerate whose Storage.Delete fails changes neither the id nor
\* the record nor the generator, and a Regenerate that succeeds is possible
\* right after it, also when the entry is already gone.
C7_FailedRegenerate ==
    /\ [][\A c \in Cycles :
            (Did("Regenerate", c) /\ Failed) =>
                /\ sessions' = sessions
                /\ nextId' = nextId
                /\ carried' = carried
         ]_vars
    /\ [](\A c \in Cycles :
            (last = Returned("Regenerate", c, BackendError)
               /\ calls < MaxCalls /\ nextId <= MaxIds) =>
                ENABLED Regenerate(c, Nil, TRUE))

\* C7 witness: Regenerate failed and the entry of the id is absent
C7_Witness ==
    \E c \in Cycles :
        /\ last = Returned("Regenerate", c, BackendError)
        /\ ~Fresh(sessions[sess[c]])
        /\ dbLen(sessions[sess[c]].db) > 0
        /\ ~StorageHas(storage, sessions[sess[c]].id)
        /\ calls < MaxCalls /\ nextId <= MaxIds

\* C8: a successful Regenerate leaves no entry under the old id and gives
\* the session the value the generator returns, which none of the ids the
\* session had before equals.
C8_RegenerateRotates ==
    [][\A c \in Cycles :
        (Did("Regenerate", c) /\ Succeeded) =>
            LET old == sessions[sess[c]].id
                new == sessions'[sess[c]].id
            IN  /\ ~StorageHas(storage', old)
                /\ new = nextId /\ nextId' = nextId + 1
                /\ new # old
                /\ new \notin carried[c]
                /\ carried'[c] = carried[c] \cup {new}
                /\ sessions'[sess[c]].db = sessions[sess[c]].db
      ]_vars

\* C8 witness: a session loaded from Storage was regenerated twice; it has
\* had three ids and none of the earlier two has an entry.
C8_Witness ==
    \E c \in Cycles :
        /\ last = Returned("Regenerate", c, Nil)
        /\ ~Fresh(sessions[sess[c]])
        /\ Cardinality(carried[c]) = 3
        /\ \A i \in carried[c] : ~StorageHas(storage, i)

\* C9: every object in the pool has id "", no Store, no ctx and no data; an
\* object acquireSession hands out (from the pool or new) has an empty
\* record, is fresh and shows no key of an earlier cycle.
C9_PoolClean ==
    \A o \in Objs :
        /\ BagIn(o, sessionPool) =>
              /\ sessions[o].id = EmptyId
              /\ sessions[o].config = NilStore
              /\ sessions[o].ctx = NilCtx
              /\ dbLen(sessions[o].db) = 0
        /\ (BagIn(o, sessionPool) \/ o \notin allocated) =>
              LET a == acquireSession(sessions[o])
              IN  /\ dbLen(a.db) = 0
                  /\ Fresh(a)
                  /\ ID(a) = EmptyId
                  /\ a.config = NilStore
                  /\ a.ctx = NilCtx
                  /\ \A k \in Keys : Get(a, k) = Nil

\* C9 witness: a cycle without cookie got the object another cycle had
\* filled, saved and released; it is empty, fresh and has a new id.
C9_Witness ==
    \E c \in Cycles, w \in Cycles :
        /\ c # w
        /\ last = Returned("StoreGet", c, Nil)
        /\ reqCookie[c] = EmptyId
        /\ pc[w] = "saved" /\ respCookie[w].set
        /\ sess[w] = sess[c]
        /\ dbLen(sessions[sess[c]].db) = 0
        /\ Fresh(sessions[sess[c]])
        /\ sessions[sess[c]].id # respCookie[w].value

\* C10: Fresh() is false once a Destroy or a storing Save has succeeded.
C10_NotFreshAfterCommit ==
    \A c \in Cycles :
        \/ last = Returned("Destroy", c, Nil)
        \/ last = Returned("Save", c, Nil) /\ respCookie[c].set
        => ~Fresh(sessions[sess[c]])

\* C10 amended: no Session method changes the flag of a session it leaves
\* with the handler; a Save that stores releases the session, which sets the
\* flag. So Fresh() is what Store.Get made it: after Destroy it is still
\* true for a session that was not loaded from Storage.
C10_FreshUnchanged ==
    [][\A c \in Cycles :
        /\ (last'.c = c /\ last'.op \in {"Set", "Delete", "Destroy",
                                         "Regenerate", "Save"}
               /\ ~BagIn(sess[c], sessionPool')) =>
              Fresh(sessions'[sess[c]]) = Fresh(sessions[sess[c]])
        /\ (Did("Save", c) /\ BagIn(sess[c], sessionPool')) =>
              Fresh(sessions'[sess[c]])
      ]_vars

\* C10 witness: Destroy succeeded on a session that is still fresh
C10_Witness ==
    \E c \in Cycles :
        /\ last = Returned("Destroy", c, Nil)
        /\ Fresh(sessions[sess[c]])
        /\ ~StorageHas(storage, sessions[sess[c]].id)

\* C11: an object whose Destroy succeeded is released to the pool with its
\* fields cleared, as one whose Save stored is.
C11_DestroyReleases ==
    \A c \in Cycles :
        last = Returned("Destroy", c, Nil) => Released(sess[c])

\* C12: with handlers that leave an object alone after their Save returned
\* nil, no object is held by two active cycles, the pool holds no object an
\* active cycle holds, and a call of one cycle changes no field of the
\* Session another active cycle holds.
C12_NoSharedSession ==
    /\ [](\A c \in Cycles, w \in Cycles :
            (c # w /\ pc[c] = "active" /\ pc[w] = "active") =>
                /\ sess[c] # sess[w]
                /\ ~BagIn(sess[c], sessionPool)
                /\ CopiesIn(sess[w], sessionPool) = 0)
    /\ [][\A c \in Cycles, w \in Cycles :
            (c # w /\ last'.c = c /\ pc[w] = "active" /\ pc'[w] = "active") =>
                /\ sess'[w] = sess[w]
                /\ sessions'[sess[w]] = sessions[sess[w]]
         ]_vars

\* C12 witness: two cycles are active at once on different objects; one
\* has just regenerated its id and set other data than the other cycle has
C12_Witness ==
    \E c \in Cycles, w \in Cycles :
        /\ pc[c] = "active" /\ pc[w] = "active"
        /\ sess[c] # sess[w]
        /\ last = Returned("Set", c, Nil)
        /\ Cardinality(carried[c]) = 2
        /\ Get(sessions[sess[c]], "user") = Unencodable
        /\ Get(sessions[sess[w]], "user") = "alice"
        /\ sessions[sess[c]].id # sessions[sess[w]].id

\* C13: Destroy, Regenerate and Save make at most one Storage call (Delete
\* of the id for Destroy and Regenerate, Set under the id for Save) and
\* return the error of the step that failed: the error of that Storage
\* call, or the error of MarshalMsg, in which case Storage is not called.
C13_ErrorsPassedThrough ==
    [][\A c \in Cycles :
        (last'.c = c /\ last'.op \in {"Destroy", "Regenerate", "Save"}) =>
            LET s == sessions[sess[c]]
                log == backendLog'
            IN  /\ Len(log) <= 1
                /\ last'.op \in {"Destroy", "Regenerate"} =>
                      /\ Len(log) = 1
                      /\ log[1].op = "Delete" /\ log[1].key = s.id
                /\ (last'.op = "Save" /\ Len(log) = 1) =>
                      /\ log[1].op = "Set" /\ log[1].key = s.id
                      /\ MarshalMsg(s.db).err = Nil
                /\ Len(log) = 1 => last'.err = log[1].err
                /\ (last'.op = "Save" /\ Len(log) = 0) =>
                      last'.err = IF dbLen(s.db) = 0 THEN Nil
                                  ELSE MarshalMsg(s.db).err
                /\ (last'.op = "Save" /\ Len(log) = 0 /\ dbLen(s.db) > 0) =>
                      last'.err # Nil
      ]_vars

\* C13 witness: Storage.Set failed once and Save returned that error
C13_Witness ==
    \E c \in Cycles :
        /\ last.op = "Save" /\ last.c = c /\ last.err = BackendError
        /\ backendLog = <<StorageCall("Set", sessions[sess[c]].id,
                                      BackendError)>>
        /\ pc[c] = "active"

\* C14: while a handler keeps its Session (the Session is not released), the
\* id changes only in a Regenerate of that handler that returns nil: Set,
\* Delete, Destroy, a failed Regenerate, a failed Save and a Save without
\* data leave ID() as it was, and so does every call of another cycle.
C14_IdStable ==
    [][\A c \in Cycles :
        (/\ pc[c] = "active"
         /\ pc'[c] \in {"active", "saved"}
         /\ ~BagIn(sess[c], sessionPool')
         /\ ID(sessions'[sess[c]]) # ID(sessions[sess[c]])) =>
            Did("Regenerate", c) /\ Succeeded
      ]_vars

\* C14 witness: a session loaded from Storage was destroyed and then saved
\* without data; it still has the id of the request cookie it came with
C14_Witness ==
    \E c \in Cycles :
        /\ last = Returned("Save", c, Nil)
        /\ ~BagIn(sess[c], sessionPool)
        /\ ~Fresh(sessions[sess[c]])
        /\ respCookie[c].maxAge = -1
        /\ carried[c] = {ID(sessions[sess[c]])}
        /\ ID(sessions[sess[c]]) # EmptyId

\* C15: when two cycles hold different objects with the same id and both
\* store data, each Save that succeeds leaves under the id the whole entry of
\* its own record and nothing of the other's, so the entry is that of the
\* Save applied last; a Save is not refused because the other cycle stored.
C15_LastWriteWins ==
    /\ [][\A c \in Cycles, w \in Cycles :
            (/\ c # w
             /\ Did("Save", c) /\ Succeeded
             /\ dbLen(sessions[sess[c]].db) > 0
             /\ sess[w] # sess[c]
             /\ sessions[sess[c]].id \in carried[w]) =>
                LET s == sessions[sess[c]]
                IN  /\ StorageHas(storage', s.id)
                    /\ storage'[s.id] = [data |-> MarshalMsg(s.db).data,
                                         ttl |-> Expiration]
                    /\ dbLen(Loaded(storage'[s.id].data).db) = dbLen(s.db)
                    /\ \A k \in Keys :
                          Get(Loaded(storage'[s.id].data), k) = Get(s, k)
         ]_vars
    /\ [](\A c \in Cycles, w \in Cycles :
            (/\ c # w
             /\ Active(c)
             /\ ~NoData(sessions[sess[c]])
             /\ MarshalMsg(sessions[sess[c]].db).err = Nil
             /\ pc[w] = "saved" /\ respCookie[w].set
             /\ respCookie[w].value = sessions[sess[c]].id
             /\ calls < MaxCalls) =>
                ENABLED SaveStored(c))

\* C15 witness: one cycle has just stored under the id while the other, which
\* resolved the same id before anything was stored (it is fresh), holds a
\* different object with other data that it can store next
C15_Witness ==
    \E c \in Cycles, w \in Cycles :
        /\ c # w
        /\ last = Returned("Save", w, Nil)
        /\ pc[w] = "saved" /\ respCookie[w].set
        /\ Active(c) /\ Fresh(sessions[sess[c]])
        /\ sess[c] # sess[w]
        /\ respCookie[w].value = sessions[sess[c]].id
        /\ MarshalMsg(sessions[sess[c]].db).err = Nil
        /\ Get(sessions[sess[c]], "user") = "alice"
        /\ Get(Loaded(storage[respCookie[w].value].data), "user") = Nil
        /\ Get(Loaded(storage[respCookie[w].value].data), "role") = "alice"
        /\ ENABLED SaveStored(c)

\* The step that is the success of the call that has just failed is possible
RetryCanSucceed(c) ==
    CASE last.op = "Save" -> ENABLED SaveStored(c)
      [] last.op = "Destroy" -> ENABLED Destroy(c, Nil, TRUE)
      [] last.op = "Regenerate" -> ENABLED Regenerate(c, Nil, TRUE)
      [] OTHER -> TRUE

\* C16: after any failure of Save, Destroy or Regenerate the same call can
\* succeed on the same object once Storage no longer fails.
C16_AnyFailureRetriable ==
    \A c \in Cycles :
        (/\ last.c = c /\ last.op \in {"Save", "Destroy", "Regenerate"}
         /\ last.err # Nil
         /\ calls < MaxCalls /\ nextId <= MaxIds) =>
            RetryCanSucceed(c)

\* C16 amended: after a failure of Storage (BackendError) in Save, Destroy
\* or Regenerate the same call can succeed on the same object, and when it
\* does its result holds: Save has stored the record under the id and
\* released the object, Destroy has left no entry and expired the cookie,
\* Regenerate has rotated the id once. (A Save that fails in MarshalMsg
\* fails again until the record is changed.)
C16_BackendFailureRetriable ==
    /\ [](\A c \in Cycles :
            (/\ last.c = c /\ last.op \in {"Save", "Destroy", "Regenerate"}
             /\ last.err = BackendError
             /\ calls < MaxCalls /\ nextId <= MaxIds) =>
                RetryCanSucceed(c))
    /\ [][\A c \in Cycles :
            (/\ last.c = c /\ last.err = BackendError
             /\ last'.c = c /\ last'.op = last.op /\ Succeeded) =>
                LET o == sess[c]
                    s == sessions[o]
                IN  /\ last.op = "Save" =>
                          /\ StorageHas(storage', s.id)
                          /\ storage'[s.id].data = MarshalMsg(s.db).data
                          /\ Released(o)'
                    /\ last.op = "Destroy" =>
                          /\ ~StorageHas(storage', s.id)
                          /\ respCookie'[c].maxAge = -1
                    /\ last.op = "Regenerate" =>
                          /\ sessions'[o].id # s.id
                          /\ Cardinality(carried'[c])
                               = Cardinality(carried[c]) + 1
         ]_vars

\* C16 witness: Storage.Set failed, nothing is stored under the id, and the
\* Save that stores is possible on the same object
C16_Witness ==
    \E c \in Cycles :
        /\ last = Returned("Save", c, BackendError)
        /\ ~StorageHas(storage, sessions[sess[c]].id)
        /\ calls < MaxCalls
        /\ ENABLED SaveStored(c)

\* The stored bytes are the serialization of a record with data
IsSavedRecord(e) ==
    /\ e.ttl = Expiration
    /\ UnmarshalMsg(NewDb, e.data).err = Nil
    /\ dbLen(Loaded(e.data).db) > 0
    /\ MarshalMsg(Loaded(e.data).db) = [err |-> Nil, data |-> e.data]

\* C17 (cycles one after the other): during the cycle of a handler, up to
\* the return of its last call and before a later cycle presents one of the
\* ids again, at most one of the ids its Session has had has an entry in
\* Storage, the current one while the handler is active; every entry is a
\* record serialized by Save; Storage changes only by the Set of a Save,
\* under the id of the Session, or by the Delete of a Destroy or Regenerate,
\* of the id of the Session.
C17_OneBlobPerSession ==
    /\ [](\A c \in Cycles :
            /\ (pc[c] = "active" \/ (pc[c] = "saved" /\ last.c = c)) =>
                  Cardinality({i \in carried[c] : StorageHas(storage, i)}) <= 1
            /\ pc[c] = "active" =>
                  \A i \in carried[c] :
                      StorageHas(storage, i) => i = sessions[sess[c]].id)
    /\ [](\A i \in DOMAIN storage : IsSavedRecord(storage[i]))
    /\ [][storage' # storage =>
            \E c \in Cycles :
                LET s == sessions[sess[c]]
                IN  \/ /\ Did("Save", c)
                       /\ storage' = StorageSet(storage, s.id,
                                                MarshalMsg(s.db).data,
                                                Expiration)
                    \/ /\ Did("Destroy", c) \/ Did("Regenerate", c)
                       /\ storage' = StorageDelete(storage, s.id)
         ]_vars

\* C17 witness: a new session got data, was regenerated and saved; of its
\* two ids only the one in the cookie has an entry
C17_Witness ==
    \E c \in Cycles :
        /\ last = Returned("Save", c, Nil)
        /\ reqCookie[c] = EmptyId
        /\ Cardinality(carried[c]) = 2
        /\ respCookie[c].set
        /\ {i \in carried[c] : StorageHas(storage, i)} = {respCookie[c].value}

\* C18: the response of a request gets a session cookie only in a Save of
\* its handler that returns nil, after the one Storage.Set of the call
\* returned nil; the cookie's value is the id the entry was written under,
\* not empty, although the Session's id is cleared by the release that
\* follows. It gets an expired cookie only in a Destroy of its handler that
\* returns nil, after Storage.Delete of the id returned nil.
C18_CookieAfterBackend ==
    [][\A c \in Cycles :
        (respCookie'[c] # respCookie[c] /\ respCookie'[c] # NoCookie) =>
            LET s == sessions[sess[c]]
            IN  \/ /\ Did("Save", c) /\ Succeeded
                   /\ s.id # EmptyId
                   /\ respCookie'[c] =
                         [set |-> TRUE, value |-> s.id, maxAge |-> Expiration]
                   /\ backendLog' = <<StorageCall("Set", s.id, Nil)>>
                   /\ StorageHas(storage', s.id)
                   /\ storage'[s.id].data = MarshalMsg(s.db).data
                   /\ sessions'[sess[c]].id = EmptyId
                \/ /\ Did("Destroy", c) /\ Succeeded
                   /\ respCookie'[c].set /\ respCookie'[c].maxAge = -1
                   /\ backendLog' = <<StorageCall("Delete", s.id, Nil)>>
                   /\ ~StorageHas(storage', s.id)
      ]_vars

\* C18 witness: one handler saved and its response carries the id of the
\* entry while the released Session has none; the response of the other
\* handler, which destroyed its session, carries the expired cookie
C18_Witness ==
    \E c \in Cycles, w \in Cycles :
        /\ c # w
        /\ last = Returned("Save", c, Nil)
        /\ respCookie[c].set /\ respCookie[c].maxAge = Expiration
        /\ respCookie[c].value # EmptyId
        /\ backendLog = <<StorageCall("Set", respCookie[c].value, Nil)>>
        /\ StorageHas(storage, respCookie[c].value)
        /\ sessions[sess[c]].id = EmptyId
        /\ respCookie[w].set /\ respCookie[w].maxAge = -1

\* Storage has no entry under any id the Session of c has had
NoBlob(c) == \A i \in carried[c] : ~StorageHas(storage, i)

C20_SecondSaveNoOp ==
    /\ [](\A o \in Objs : CopiesIn(o, sessionPool) <= 1)
    /\ [][\A c \in Cycles :
            (/\ pc[c] = "saved" /\ calls' = calls + 1
             /\ Did("Save", c)
             /\ respCookie[c].set /\ respCookie[c].maxAge = Expiration
             /\ BagIn(sess[c], sessionPool)) =>
                /\ Succeeded
                /\ backendLog' = << >>
                /\ storage' = storage
                /\ respCookie' = respCookie
                /\ sessions' = sessions
                /\ sessionPool' = sessionPool
                /\ CopiesIn(sess[c], sessionPool') = 1
         ]_vars

\* C20 witness: the second Save of a handler has returned nil without a
\* Storage call; the cookie and the entry of its first Save are there and
\* the released object is in the pool once
C20_Witness ==
    \E c \in Cycles :
        /\ pc[c] = "saved"
        /\ last = Returned("Save", c, Nil)
        /\ backendLog = << >>
        /\ respCookie[c].set /\ respCookie[c].maxAge = Expiration
        /\ StorageHas(storage, respCookie[c].value)
        /\ Released(sess[c])
        /\ CopiesIn(sess[c], sessionPool) = 1

====
